---- MODULE Spec2Model ----
(***************************************************************************)
(* Santa20 local contest: the match scheduler (run_games.py), the Agent    *)
(* and Game tables (models.py), the admin's aggregate views (admin.py) and *)
(* the trajectory reconstruction Game.steps (models.py).                   *)
(*                                                                         *)
(* Floating point numbers are carried as fixed-point integers: ratings in  *)
(* units of 1/RScale, expected scores in units of 1/EScale, powers of ten  *)
(* in thousandths, thresholds in units of 1/ThScale.  Every float          *)
(* operation rounds its result to the nearest unit.                        *)
(***************************************************************************)
EXTENDS Integers, Sequences, FiniteSets, TLC

VARIABLES
    agents,     \* table Agent: id -> [rating, file, enabled]
    games,      \* table Game: sequence of rows, the row's index is its id
    pc,         \* per scheduler process: its position in handle / run_game
    loc,        \* per scheduler process: the locals of handle / run_game
    owner,      \* history: game id -> the scheduler process that created it
    env,        \* the harness log under reconstruction (env.steps)
    cache       \* the cached_property Game.steps of the record built from env

vars == <<agents, games, pc, loc, owner, env, cache>>

-----------------------------------------------------------------------------
(* Bounds of the model *)

MaxAgents == 2
MaxGames == 2
MaxSteps == 2
MaxDeleted == 1
NumBandits == 2

Workers == {"w1", "w2"}

-----------------------------------------------------------------------------
(* Values *)

\* Python None / SQL NULL of a nullable Game column; a present value v is <<v>>.
NULL == <<>>
Some(v) == <<v>>
Val(o) == o[1]

\* SQL NULL of the column Agent.file.  The column is NOT NULL (FileField without
\* null=True): an agent without an upload holds the empty string.
SqlNull == "<NULL>"
NoFile == ""
Uploaded == "uploads/agent.py"

STARTED == 0
FINISHED == 10
DELETED == 20

LEFT_WON == 0
RIGHT_WON == 1
DRAW == 10
UNKNOWN == 20

RScale == 100
EScale == 10000

DefaultRating == 600 * RScale

K == 32

ThScale == 10000
DECAY_RATE == 97
SAMPLE_RESOLUTION == 100

\* the option -n / --num_games of each scheduler process
num_games(w) == IF w = "w1" THEN MaxGames ELSE 1

\* n / d rounded to the nearest integer, halves away from zero (d > 0)
RoundDiv(n, d) ==
    IF n >= 0 THEN (2 * n + d) \div (2 * d) ELSE -((2 * (-n) + d) \div (2 * d))

RECURSIVE Pow10Int(_)
Pow10Int(e) == IF e = 0 THEN 1 ELSE 10 * Pow10Int(e - 1)

\* 10^(k/16) for k = 0..16, in thousandths
Pow10Table ==
    <<1000, 1155, 1334, 1540, 1778, 2054, 2371, 2738, 3162,
      3652, 4217, 4870, 5623, 6494, 7499, 8660, 10000>>

\* 10 ** (a / 400) for a rating a, in thousandths
Pow10(a) ==
    LET period == 400 * RScale
        cell == period \div 16
        e == a \div period
        m == a % period
        k == m \div cell
        f == m % cell
        mant == Pow10Table[k + 1]
                  + RoundDiv((Pow10Table[k + 2] - Pow10Table[k + 1]) * f, cell)
    IN  IF e >= 0 THEN mant * Pow10Int(e) ELSE RoundDiv(mant, Pow10Int(-e))

expected_scores(a, b) ==
    LET qa == Pow10(a)
        qb == Pow10(b)
        s == qa + qb
    IN  <<RoundDiv(qa * EScale, s), RoundDiv(qb * EScale, s)>>

\* find_new_scores with the left side's expected score used for both sides
find_new_scores_SameExpected(ra, rb, result) ==
    LET e == expected_scores(ra, rb)
        sc == IF result = LEFT_WON THEN <<EScale, 0>>
              ELSE IF result = RIGHT_WON THEN <<0, EScale>>
              ELSE IF result = DRAW THEN <<EScale \div 2, EScale \div 2>>
              ELSE NULL
    IN  IF sc = NULL THEN NULL
        ELSE <<ra + RoundDiv(K * (sc[1] - e[1]) * RScale, EScale),
               rb + RoundDiv(K * (sc[2] - e[1]) * RScale, EScale)>>

\* find_new_scores with half the k for the right side
find_new_scores_HalfKForRight(ra, rb, result) ==
    LET e == expected_scores(ra, rb)
        sc == IF result = LEFT_WON THEN <<EScale, 0>>
              ELSE IF result = RIGHT_WON THEN <<0, EScale>>
              ELSE IF result = DRAW THEN <<EScale \div 2, EScale \div 2>>
              ELSE NULL
    IN  IF sc = NULL THEN NULL
        ELSE <<ra + RoundDiv(K * (sc[1] - e[1]) * RScale, EScale),
               rb + RoundDiv((K \div 2) * (sc[2] - e[2]) * RScale, EScale)>>

\* find_new_scores(ra, rb, result, k=32); an unknown result raises ValueError,
\* which is the value NULL here
find_new_scores(ra, rb, result) ==
    LET e == expected_scores(ra, rb)
        sc == IF result = LEFT_WON THEN <<EScale, 0>>
              ELSE IF result = RIGHT_WON THEN <<0, EScale>>
              ELSE IF result = DRAW THEN <<EScale \div 2, EScale \div 2>>
              ELSE NULL
    IN  IF sc = NULL THEN NULL
        ELSE <<ra + RoundDiv(K * (sc[1] - e[1]) * RScale, EScale),
               rb + RoundDiv(K * (sc[2] - e[2]) * RScale, EScale)>>

-----------------------------------------------------------------------------
(* The harness log and the arrays run_game extracts from it *)

\* numpy's stores into uint8 and uint16 arrays
U8(v) == v % 256
U16(v) == v % 65536

\* env.steps: the thresholds of the first observation and, per played step,
\* both sides' action and cumulative reward
HarnessLogs ==
    { [thresholds |-> <<50, 50>>,
       steps |-> << [la |-> 0, ra |-> 1, lr |-> r[1], rr |-> r[2]] >>] :
         r \in {<<1, 0>>, <<0, 1>>, <<1, 1>>} }

left_actions_of(log) == [i \in 1..Len(log.steps) |-> U8(log.steps[i].la)]
right_actions_of(log) == [i \in 1..Len(log.steps) |-> U8(log.steps[i].ra)]
left_rewards_of(log) == [i \in 1..Len(log.steps) |-> U16(log.steps[i].lr)]
right_rewards_of(log) == [i \in 1..Len(log.steps) |-> U16(log.steps[i].rr)]
initial_thresholds_of(log) == [i \in 1..Len(log.thresholds) |-> U8(log.thresholds[i])]

\* lines 75..82 of run_game; an empty log has no last reward (IndexError): NULL
result_of(log) ==
    IF Len(log.steps) = 0 THEN NULL
    ELSE LET l == left_rewards_of(log)[Len(log.steps)]
             r == right_rewards_of(log)[Len(log.steps)]
         IN  IF l > r THEN Some(LEFT_WON)
             ELSE IF l < r THEN Some(RIGHT_WON)
             ELSE Some(DRAW)

-----------------------------------------------------------------------------
(* Tables *)

Agent(f, en) == [rating |-> DefaultRating, file |-> f, enabled |-> en]

\* NewGame with the column default of result left at 0 (LEFT_WON)
NewGame_ResultDefault0(l, r, lrating, rrating) ==
    [status |-> STARTED, finished |-> FALSE,
     left_agent |-> l, right_agent |-> r,
     left_current_rating |-> lrating, right_current_rating |-> rrating,
     left_new_rating |-> NULL, right_new_rating |-> NULL,
     initial_thresholds |-> NULL,
     left_actions |-> NULL, right_actions |-> NULL,
     left_rewards |-> NULL, right_rewards |-> NULL,
     result |-> LEFT_WON]

\* Game.objects.create(...) of run_game: the column defaults and the five
\* values passed
NewGame(l, r, lrating, rrating) ==
    [status |-> STARTED, finished |-> FALSE,
     left_agent |-> l, right_agent |-> r,
     left_current_rating |-> lrating, right_current_rating |-> rrating,
     left_new_rating |-> NULL, right_new_rating |-> NULL,
     initial_thresholds |-> NULL,
     left_actions |-> NULL, right_actions |-> NULL,
     left_rewards |-> NULL, right_rewards |-> NULL,
     result |-> UNKNOWN]

NoLocals ==
    [agent_id_list |-> {}, c |-> 0, left_id |-> 0, right_id |-> 0,
     left_rating |-> 0, right_rating |-> 0, game |-> 0, row |-> NULL,
     left_new_score |-> 0, right_new_score |-> 0]

NoEnv == [thresholds |-> <<>>, steps |-> <<>>]

NoCache == [steps |-> NULL, error |-> ""]

\* The agent tables the model starts from: 0..MaxAgents agents at the default
\* rating, of which the last registered one may lack an upload or be disabled.
Populations ==
    { [a \in 1..n |-> IF a = n THEN Agent(f, en) ELSE Agent(Uploaded, TRUE)] :
        n \in 0..MaxAgents, f \in {NoFile, Uploaded}, en \in BOOLEAN }

Init ==
    /\ agents \in Populations
    /\ games = <<>>
    /\ pc = [w \in Workers |-> "handle"]
    /\ loc = [w \in Workers |-> NoLocals]
    /\ owner = <<>>
    /\ env = NoEnv
    /\ cache = NoCache

-----------------------------------------------------------------------------
(* Command.handle and run_game, one action per database operation *)

\* the games the scheduler processes of the model have created; the rows an
\* earlier run left in the table carry its name in owner
EarlierRun == "earlier"
Scheduled == { g \in DOMAIN games : owner[g] \in Workers }

\* np.random.choice(agent_id_list, size=2, replace=False): the ordered pairs
choice_agents_for_game(agent_id_list) ==
    { p \in agent_id_list \X agent_id_list : p[1] # p[2] }

\* handle, lines 16..24: the pool is read once
HandleStart(w) ==
    /\ pc[w] = "handle"
    /\ LET agent_id_list == { a \in DOMAIN agents : agents[a].file # SqlNull }
       IN  IF Cardinality(agent_id_list) < 2
           THEN /\ pc' = [pc EXCEPT ![w] = "no_agents"]
                /\ loc' = loc
           ELSE /\ pc' = [pc EXCEPT ![w] = "loop"]
                /\ loc' = [loc EXCEPT ![w].agent_id_list = agent_id_list, ![w].c = 1]
    /\ UNCHANGED <<agents, games, owner, env, cache>>

\* handle, line 26: the loop ends
LoopExit(w) ==
    /\ pc[w] = "loop"
    /\ loc[w].c > num_games(w)
    /\ pc' = [pc EXCEPT ![w] = "returned"]
    /\ UNCHANGED <<agents, games, loc, owner, env, cache>>

\* handle, line 27, and run_game, lines 44..49: a pair is chosen and the left
\* agent is read
ChooseAgents(w) ==
    /\ pc[w] = "loop"
    /\ loc[w].c <= num_games(w)
    /\ Cardinality(Scheduled) < MaxGames
    /\ \E p \in choice_agents_for_game(loc[w].agent_id_list) :
         IF p[1] = p[2] \/ p[1] \notin DOMAIN agents
         THEN /\ pc' = [pc EXCEPT ![w] = "failed"]
              /\ loc' = loc
         ELSE /\ pc' = [pc EXCEPT ![w] = "read_right"]
              /\ loc' = [loc EXCEPT ![w].left_id = p[1], ![w].right_id = p[2],
                                    ![w].left_rating = agents[p[1]].rating]
    /\ UNCHANGED <<agents, games, owner, env, cache>>

\* run_game, lines 51..53
ReadRightAgent(w) ==
    /\ pc[w] = "read_right"
    /\ IF loc[w].right_id \notin DOMAIN agents
       THEN /\ pc' = [pc EXCEPT ![w] = "failed"]
            /\ loc' = loc
       ELSE /\ pc' = [pc EXCEPT ![w] = "create"]
            /\ loc' = [loc EXCEPT ![w].right_rating = agents[loc[w].right_id].rating]
    /\ UNCHANGED <<agents, games, owner, env, cache>>

\* CreateGame that hands the match to the harness and goes on to the next pair
CreateGame_NoWait(w) ==
    /\ pc[w] = "create"
    /\ games' = Append(games, [status |-> STARTED, finished |-> FALSE,
                               left_agent |-> loc[w].left_id,
                               right_agent |-> loc[w].right_id,
                               left_current_rating |-> loc[w].left_rating,
                               right_current_rating |-> loc[w].right_rating,
                               left_new_rating |-> NULL, right_new_rating |-> NULL,
                               initial_thresholds |-> NULL,
                               left_actions |-> NULL, right_actions |-> NULL,
                               left_rewards |-> NULL, right_rewards |-> NULL,
                               result |-> UNKNOWN])
    /\ owner' = Append(owner, w)
    /\ loc' = [loc EXCEPT ![w].c = loc[w].c + 1, ![w].game = Len(games) + 1]
    /\ pc' = [pc EXCEPT ![w] = "loop"]
    /\ UNCHANGED <<agents, env, cache>>

\* run_game, lines 55..62
CreateGame(w) ==
    /\ pc[w] = "create"
    /\ LET row == NewGame(loc[w].left_id, loc[w].right_id,
                          loc[w].left_rating, loc[w].right_rating)
       IN  /\ games' = Append(games, row)
           /\ loc' = [loc EXCEPT ![w].game = Len(games) + 1, ![w].row = Some(row)]
    /\ owner' = Append(owner, w)
    /\ pc' = [pc EXCEPT ![w] = "run"]
    /\ UNCHANGED <<agents, env, cache>>

\* The in-memory Game object after lines 88..99
SettledRow(row, log, result, new_scores) ==
    [row EXCEPT !.initial_thresholds = Some(initial_thresholds_of(log)),
                !.left_actions = Some(left_actions_of(log)),
                !.right_actions = Some(right_actions_of(log)),
                !.left_rewards = Some(left_rewards_of(log)),
                !.right_rewards = Some(right_rewards_of(log)),
                !.result = result,
                !.status = FINISHED,
                !.left_new_rating = Some(new_scores[1]),
                !.right_new_rating = Some(new_scores[2]),
                !.finished = TRUE]

\* run_game, lines 63..99: the harness returns a log; the arrays, the result
\* and the new scores are computed from it and from the ratings read at
\* lines 47 and 51
RunHarness(w) ==
    /\ pc[w] = "run"
    /\ agents[loc[w].left_id].file # NoFile
    /\ agents[loc[w].right_id].file # NoFile
    /\ \E log \in HarnessLogs :
         /\ result_of(log) # NULL
         /\ LET result == Val(result_of(log))
                new_scores == find_new_scores(loc[w].left_rating,
                                              loc[w].right_rating, result)
            IN  loc' = [loc EXCEPT
                          ![w].row = Some(SettledRow(Val(loc[w].row), log,
                                                     result, new_scores)),
                          ![w].left_new_score = new_scores[1],
                          ![w].right_new_score = new_scores[2]]
    /\ pc' = [pc EXCEPT ![w] = "save_game"]
    /\ UNCHANGED <<agents, games, owner, env, cache>>

\* HarnessFails that still finalizes the record, as a draw without data
HarnessFails_Finalizes(w) ==
    /\ pc[w] = "run"
    /\ games' = [games EXCEPT ![loc[w].game].status = FINISHED,
                              ![loc[w].game].result = DRAW]
    /\ pc' = [pc EXCEPT ![w] = "failed"]
    /\ UNCHANGED <<agents, loc, owner, env, cache>>

\* run_game, line 63 (an agent without a file has no file.path; the harness
\* raises) or lines 65..86 raise: handle prints the error and returns
HarnessFails(w) ==
    /\ pc[w] = "run"
    /\ pc' = [pc EXCEPT ![w] = "failed"]
    /\ UNCHANGED <<agents, games, loc, owner, env, cache>>

\* SaveGame that writes the status, the result and the ratings, not the arrays
SaveGame_WithoutArrays(w) ==
    /\ pc[w] = "save_game"
    /\ games' = [games EXCEPT ![loc[w].game] =
                   [Val(loc[w].row) EXCEPT !.initial_thresholds = NULL,
                                           !.left_actions = NULL,
                                           !.right_actions = NULL,
                                           !.left_rewards = NULL,
                                           !.right_rewards = NULL]]
    /\ pc' = [pc EXCEPT ![w] = "save_left"]
    /\ UNCHANGED <<agents, loc, owner, env, cache>>

\* run_game, line 100: game.save() writes every column of the row
SaveGame(w) ==
    /\ pc[w] = "save_game"
    /\ games' = [games EXCEPT ![loc[w].game] = Val(loc[w].row)]
    /\ pc' = [pc EXCEPT ![w] = "save_left"]
    /\ UNCHANGED <<agents, loc, owner, env, cache>>

\* SaveLeftAgent writing the right side's new score to the left agent
SaveLeftAgent_SavesRightScore(w) ==
    /\ pc[w] = "save_left"
    /\ agents' = [agents EXCEPT ![loc[w].left_id].rating = loc[w].right_new_score]
    /\ pc' = [pc EXCEPT ![w] = "save_right"]
    /\ UNCHANGED <<games, loc, owner, env, cache>>

\* run_game, lines 102..103
SaveLeftAgent(w) ==
    /\ pc[w] = "save_left"
    /\ agents' = [agents EXCEPT ![loc[w].left_id].rating = loc[w].left_new_score]
    /\ pc' = [pc EXCEPT ![w] = "save_right"]
    /\ UNCHANGED <<games, loc, owner, env, cache>>

\* run_game, lines 105..108, and handle, lines 35..36
SaveRightAgent(w) ==
    /\ pc[w] = "save_right"
    /\ agents' = [agents EXCEPT ![loc[w].right_id].rating = loc[w].right_new_score]
    /\ pc' = [pc EXCEPT ![w] = "loop"]
    /\ loc' = [loc EXCEPT ![w] = [NoLocals EXCEPT
                                    !.agent_id_list = loc[w].agent_id_list,
                                    !.c = loc[w].c + 1]]
    /\ UNCHANGED <<games, owner, env, cache>>

\* GameAdmin's change form, whose status field is editable: the soft removal
\* of a game
SoftDelete(g) ==
    /\ g \in DOMAIN games
    /\ games[g].status # DELETED
    /\ Cardinality({ h \in DOMAIN games : games[h].status = DELETED }) < MaxDeleted
    /\ games' = [games EXCEPT ![g].status = DELETED]
    /\ UNCHANGED <<agents, pc, loc, owner, env, cache>>

-----------------------------------------------------------------------------
(* Aggregate views of an agent, over the set G of game ids the query sees *)

\* games_qs without the status filter
games_qs_AnyStatus(G, a) ==
    { g \in G : games[g].left_agent = a \/ games[g].right_agent = a }

\* Agent.games_qs
games_qs(G, a) ==
    { g \in G : /\ games[g].left_agent = a \/ games[g].right_agent = a
                /\ games[g].status = FINISHED }

\* Agent.num_games
num_games_of(G, a) == Cardinality(games_qs(G, a))

\* Python's round(n / d): to the nearest integer, halves to the even one
RoundHalfEven(n, d) ==
    LET q == n \div d
        r == n % d
    IN  IF 2 * r < d THEN q
        ELSE IF 2 * r > d THEN q + 1
        ELSE IF q % 2 = 0 THEN q ELSE q + 1

\* AgentAdmin.win_ratio, side_stat: the ratio (NULL for "Nan") and the count
side_stat(G, a, side, win_result) ==
    LET side_games == { g \in games_qs(G, a) :
                          IF side = "left" THEN games[g].left_agent = a
                                           ELSE games[g].right_agent = a }
        n == Cardinality(side_games)
        wins == Cardinality({ g \in side_games : games[g].result = win_result })
    IN  [ratio |-> IF n # 0 THEN Some(RoundHalfEven(wins * 100, n)) ELSE NULL,
         num_games |-> n]

win_ratio(G, a) ==
    <<side_stat(G, a, "left", LEFT_WON), side_stat(G, a, "right", RIGHT_WON)>>

\* stat_key without the left_id == right_id test of line 80
stat_key_CountsSelfPlay(g, a) ==
    LET l == games[g].left_agent
        r == games[g].right_agent
        res == games[g].result
    IN  IF l = a
        THEN IF res = LEFT_WON THEN Some(<<r, "win">>)
             ELSE IF res = DRAW THEN Some(<<r, "draw">>)
             ELSE IF res = RIGHT_WON THEN Some(<<r, "lose">>)
             ELSE NULL
        ELSE IF r = a
             THEN IF res = RIGHT_WON THEN Some(<<l, "win">>)
                  ELSE IF res = DRAW THEN Some(<<l, "draw">>)
                  ELSE IF res = LEFT_WON THEN Some(<<l, "lose">>)
                  ELSE NULL
        ELSE NULL

\* AgentAdmin.statistics, lines 80..103: the competitor and the key a row of
\* games_qs counts under, NULL when the row is skipped
stat_key(g, a) ==
    LET l == games[g].left_agent
        r == games[g].right_agent
        res == games[g].result
    IN  IF l = r THEN NULL
        ELSE IF l = a
             THEN IF res = LEFT_WON THEN Some(<<r, "win">>)
                  ELSE IF res = DRAW THEN Some(<<r, "draw">>)
                  ELSE IF res = RIGHT_WON THEN Some(<<r, "lose">>)
                  ELSE NULL
        ELSE IF r = a
             THEN IF res = RIGHT_WON THEN Some(<<l, "win">>)
                  ELSE IF res = DRAW THEN Some(<<l, "draw">>)
                  ELSE IF res = LEFT_WON THEN Some(<<l, "lose">>)
                  ELSE NULL
        ELSE NULL

\* AgentAdmin.statistics, lines 73..105: competitor_to_stats
statistics(G, a) ==
    LET rows == { g \in games_qs(G, a) : stat_key(g, a) # NULL }
        competitors == { Val(stat_key(g, a))[1] : g \in rows }
        count(c, k) == Cardinality({ g \in rows : Val(stat_key(g, a)) = <<c, k>> })
    IN  [c \in competitors |->
           [win |-> count(c, "win"), lose |-> count(c, "lose"),
            draw |-> count(c, "draw")]]

\* AgentAdmin.last_games: per listed game the rating change, NULL for "-"
last_games(G, a) ==
    [g \in games_qs(G, a) |->
       LET new_rating == IF games[g].left_agent = a THEN games[g].left_new_rating
                         ELSE games[g].right_new_rating
           old_rating == IF games[g].left_agent = a THEN games[g].left_current_rating
                         ELSE games[g].right_current_rating
       IN  IF new_rating = NULL THEN NULL ELSE Some(Val(new_rating) - old_rating)]

AgentViews(G, a) ==
    [num_games |-> num_games_of(G, a), win_ratio |-> win_ratio(G, a),
     statistics |-> statistics(G, a), last_games |-> last_games(G, a)]

-----------------------------------------------------------------------------

Next ==
    \/ \E w \in Workers :
         \/ HandleStart(w)
         \/ LoopExit(w)
         \/ ChooseAgents(w)
         \/ ReadRightAgent(w)
         \/ CreateGame(w)
         \/ RunHarness(w)
         \/ HarnessFails(w)
         \/ SaveGame(w)
         \/ SaveLeftAgent(w)
         \/ SaveRightAgent(w)
    \/ \E g \in DOMAIN games : SoftDelete(g)

Spec == Init /\ [][Next]_vars

-----------------------------------------------------------------------------
(* One run_games process on a database that earlier runs have used *)

\* the ratings earlier runs have left the agents with
Ratings == { DefaultRating, 514 * RScale, 526 * RScale }

Rated(p, r) == [a \in DOMAIN p |-> [p[a] EXCEPT !.rating = r[a]]]

\* the row of a match an earlier run has played and settled, agent 1 against
\* agent 2 from the ratings r
EarlierGames(r) ==
    { SettledRow(NewGame(1, 2, r[1], r[2]), log, Val(result_of(log)),
                 find_new_scores(r[1], r[2], Val(result_of(log)))) :
        log \in HarnessLogs }

InitSingle ==
    /\ \E p \in Populations, r \in [1..MaxAgents -> Ratings] :
         \/ /\ agents = Rated(p, r)
            /\ games = <<>>
            /\ owner = <<>>
         \/ /\ Len(p) >= 2
            /\ \E row \in EarlierGames(r) :
                 /\ agents = [Rated(p, r) EXCEPT
                                ![1].rating = Val(row.left_new_rating),
                                ![2].rating = Val(row.right_new_rating)]
                 /\ games = <<row>>
                 /\ owner = <<EarlierRun>>
    /\ pc = [w \in Workers |-> "handle"]
    /\ loc = [w \in Workers |-> NoLocals]
    /\ env = NoEnv
    /\ cache = NoCache

\* the steps of the one process and of the admin
NextSingle ==
    \/ HandleStart("w1")
    \/ LoopExit("w1")
    \/ ChooseAgents("w1")
    \/ ReadRightAgent("w1")
    \/ CreateGame("w1")
    \/ RunHarness("w1")
    \/ HarnessFails("w1")
    \/ SaveGame("w1")
    \/ SaveLeftAgent("w1")
    \/ SaveRightAgent("w1")
    \/ \E g \in DOMAIN games : SoftDelete(g)

SpecSingle == InitSingle /\ [][NextSingle]_vars

-----------------------------------------------------------------------------
(* Game.steps, the trajectory reconstruction *)

\* th[a] *= DECAY_RATE
Decay(x) == RoundDiv(x * DECAY_RATE, 100)

\* decay_pulled as one indexed update, th[[la, ra]] *= DECAY_RATE: an arm both
\* sides pull decays once
decay_pulled_Once(th, la, ra) ==
    [a \in DOMAIN th |-> IF a = la + 1 \/ a = ra + 1 THEN Decay(th[a]) ELSE th[a]]

\* lines 113..114: the arm of each side decays, one after the other
decay_pulled(th, la, ra) ==
    LET th1 == [th EXCEPT ![la + 1] = Decay(@)]
    IN  [th1 EXCEPT ![ra + 1] = Decay(@)]

\* step_body with the expected rewards read after the decay
step_body_ReadAfterDecay(th, tl, tr, la, ra, lr, rr) ==
    LET th2 == [[th EXCEPT ![la + 1] = Decay(@)] EXCEPT ![ra + 1] = Decay(@)]
        lr2 == U16(lr - tl)
        rr2 == U16(rr - tr)
        tl2 == U16(tl + lr2)
        tr2 == U16(tr + rr2)
    IN  [th |-> th2, tl |-> tl2, tr |-> tr2,
         d |-> [left_action |-> la, right_action |-> ra,
                left_reward |-> lr2, right_reward |-> rr2,
                total_left_reward |-> tl2, total_right_reward |-> tr2,
                left_expected_reward |-> RoundDiv(th2[la + 1], SAMPLE_RESOLUTION),
                right_expected_reward |-> RoundDiv(th2[ra + 1], SAMPLE_RESOLUTION),
                thresholds |-> th2]]

\* step_body adding the cumulative reward, not the delta, to the running total
step_body_TotalOfCumulatives(th, tl, tr, la, ra, lr, rr) ==
    LET left_expected_reward == RoundDiv(th[la + 1], SAMPLE_RESOLUTION)
        right_expected_reward == RoundDiv(th[ra + 1], SAMPLE_RESOLUTION)
        th2 == decay_pulled(th, la, ra)
        lr2 == U16(lr - tl)
        rr2 == U16(rr - tr)
        tl2 == U16(tl + lr)
        tr2 == U16(tr + rr)
    IN  [th |-> th2, tl |-> tl2, tr |-> tr2,
         d |-> [left_action |-> la, right_action |-> ra,
                left_reward |-> lr2, right_reward |-> rr2,
                total_left_reward |-> tl2, total_right_reward |-> tr2,
                left_expected_reward |-> left_expected_reward,
                right_expected_reward |-> right_expected_reward,
                thresholds |-> th2]]

\* One pass of the loop body, lines 110..133: the thresholds and totals after
\* it and the dict it appends
step_body(th, tl, tr, la, ra, lr, rr) ==
    LET left_expected_reward == RoundDiv(th[la + 1], SAMPLE_RESOLUTION)
        right_expected_reward == RoundDiv(th[ra + 1], SAMPLE_RESOLUTION)
        th2 == decay_pulled(th, la, ra)
        lr2 == U16(lr - tl)
        rr2 == U16(rr - tr)
        tl2 == U16(tl + lr2)
        tr2 == U16(tr + rr2)
    IN  [th |-> th2, tl |-> tl2, tr |-> tr2,
         d |-> [left_action |-> la, right_action |-> ra,
                left_reward |-> lr2, right_reward |-> rr2,
                total_left_reward |-> tl2, total_right_reward |-> tr2,
                left_expected_reward |-> left_expected_reward,
                right_expected_reward |-> right_expected_reward,
                thresholds |-> th2]]

Min(a, b) == IF a <= b THEN a ELSE b

\* The loop of lines 107..133 from the i-th zipped element on; an action that
\* is no index of th raises IndexError and nothing is returned
RECURSIVE steps_loop(_, _, _, _, _, _, _)
steps_loop(row, n, i, th, tl, tr, data) ==
    IF i > n THEN [steps |-> Some(data), error |-> ""]
    ELSE LET la == Val(row.left_actions)[i]
             ra == Val(row.right_actions)[i]
         IN  IF la >= Len(th) \/ ra >= Len(th)
             THEN [steps |-> NULL, error |-> "IndexError"]
             ELSE LET b == step_body(th, tl, tr, la, ra,
                                     Val(row.left_rewards)[i], Val(row.right_rewards)[i])
                  IN  steps_loop(row, n, i + 1, b.th, b.tl, b.tr, Append(data, b.d))

\* steps with every action index clamped to the last arm before it is used
steps_ClampedActions(row) ==
    IF \/ row.left_actions = NULL \/ row.right_actions = NULL
       \/ row.left_rewards = NULL \/ row.right_rewards = NULL
       \/ row.initial_thresholds = NULL
    THEN [steps |-> NULL, error |-> "TypeError"]
    ELSE LET th == [a \in 1..Len(Val(row.initial_thresholds)) |->
                      Val(row.initial_thresholds)[a] * ThScale]
             clamp(s) == [i \in 1..Len(s) |-> Min(s[i], Len(th) - 1)]
             clamped == [row EXCEPT !.left_actions = Some(clamp(Val(@))),
                                    !.right_actions = Some(clamp(Val(@)))]
             n == Min(Min(Len(Val(row.left_actions)), Len(Val(row.right_actions))),
                      Min(Len(Val(row.left_rewards)), Len(Val(row.right_rewards))))
         IN  steps_loop(clamped, n, 1, th, 0, 0, <<>>)

\* Game.steps: zip stops at the shortest of the four arrays; zip over None
\* raises TypeError
steps(row) ==
    IF \/ row.left_actions = NULL \/ row.right_actions = NULL
       \/ row.left_rewards = NULL \/ row.right_rewards = NULL
       \/ row.initial_thresholds = NULL
    THEN [steps |-> NULL, error |-> "TypeError"]
    ELSE LET th == [a \in 1..Len(Val(row.initial_thresholds)) |->
                      Val(row.initial_thresholds)[a] * ThScale]
             n == Min(Min(Len(Val(row.left_actions)), Len(Val(row.right_actions))),
                      Min(Len(Val(row.left_rewards)), Len(Val(row.right_rewards))))
         IN  steps_loop(row, n, 1, th, 0, 0, <<>>)

\* The row run_game saves for the log env (lines 65..99), NULL when it raises
EnvRow ==
    IF result_of(env) = NULL THEN NULL
    ELSE Some(SettledRow(NewGame(1, 2, DefaultRating, DefaultRating), env,
                         Val(result_of(env)),
                         find_new_scores(DefaultRating, DefaultRating,
                                         Val(result_of(env)))))

\* The initial thresholds the harness draws
ThresholdVectors ==
    { [a \in 1..NumBandits |-> 50], [a \in 1..NumBandits |-> IF a = 1 THEN 80 ELSE 20] }

\* the reward each side gains in one step
RewardGains == {<<0, 0>>, <<1, 0>>, <<0, 1>>}

InitSteps ==
    /\ agents = <<>>
    /\ games = <<>>
    /\ pc = [w \in Workers |-> "handle"]
    /\ loc = [w \in Workers |-> NoLocals]
    /\ owner = <<>>
    /\ env \in { [thresholds |-> t, steps |-> <<>>] : t \in ThresholdVectors }
    /\ cache = NoCache

\* The harness plays one more step: each side pulls an arm (NumBandits is no
\* arm) and the cumulative rewards grow
HarnessStep ==
    /\ cache = NoCache
    /\ Len(env.steps) < MaxSteps
    /\ \E la, ra \in 0..NumBandits, gain \in RewardGains :
         LET lr == IF env.steps = <<>> THEN 0 ELSE env.steps[Len(env.steps)].lr
             rr == IF env.steps = <<>> THEN 0 ELSE env.steps[Len(env.steps)].rr
         IN  env' = [env EXCEPT !.steps =
                        Append(@, [la |-> la, ra |-> ra,
                                   lr |-> lr + gain[1], rr |-> rr + gain[2]])]
    /\ UNCHANGED <<agents, games, pc, loc, owner, cache>>

\* A consumer reads game.steps of the saved record for the first time
ViewSteps ==
    /\ cache = NoCache
    /\ EnvRow # NULL
    /\ cache' = steps(Val(EnvRow))
    /\ UNCHANGED <<agents, games, pc, loc, owner, env>>

NextSteps == HarnessStep \/ ViewSteps

SpecSteps == InitSteps /\ [][NextSteps]_vars

-----------------------------------------------------------------------------
(* Game.steps over the records the Game table can hold *)

\* the arrays an NDArrayField column can hold: any length, any arm index of
\* the uint8 range (NumBandits stands for the indices that are no arm)
StoredActions == UNION { [1..n -> 0..NumBandits] : n \in 0..MaxSteps }
StoredLeftRewards == { [i \in 1..n |-> i] : n \in 0..MaxSteps }
StoredRightRewards == { [i \in 1..n |-> 0] : n \in 0..MaxSteps }

\* a row as Game.objects.create left it, or a finished row with its five
\* arrays, each column on its own
StoredRows ==
    { NewGame(1, 2, DefaultRating, DefaultRating) } \cup
    { [NewGame(1, 2, DefaultRating, DefaultRating) EXCEPT
          !.initial_thresholds = Some(t),
          !.left_actions = Some(la), !.right_actions = Some(ra),
          !.left_rewards = Some(lr), !.right_rewards = Some(rr),
          !.result = IF Len(lr) > 0 THEN LEFT_WON ELSE DRAW,
          !.status = FINISHED,
          !.left_new_rating = Some(DefaultRating),
          !.right_new_rating = Some(DefaultRating),
          !.finished = TRUE] :
        t \in ThresholdVectors, la \in StoredActions, ra \in StoredActions,
        lr \in StoredLeftRewards, rr \in StoredRightRewards }

InitStored ==
    /\ agents = <<>>
    /\ games \in { <<row>> : row \in StoredRows }
    /\ pc = [w \in Workers |-> "handle"]
    /\ loc = [w \in Workers |-> NoLocals]
    /\ owner = <<>>
    /\ env = NoEnv
    /\ cache = NoCache

\* visualization_view(request, object_id): a record without arrays is turned
\* away, otherwise game.steps is read
visualization_view(g) ==
    /\ cache = NoCache
    /\ g \in DOMAIN games
    /\ cache' = IF \/ games[g].initial_thresholds = NULL
                   \/ games[g].left_actions = NULL \/ games[g].right_actions = NULL
                   \/ games[g].left_rewards = NULL \/ games[g].right_rewards = NULL
                THEN [steps |-> NULL, error |-> "Can't create a video."]
                ELSE steps(games[g])
    /\ UNCHANGED <<agents, games, pc, loc, owner, env>>

NextStored == \E g \in 1..MaxGames : visualization_view(g)

SpecStored == InitStored /\ [][NextStored]_vars

-----------------------------------------------------------------------------
(* The agent page of the admin over the tables the Game table can hold *)

\* the rows of a match of l against r (GameAdmin lets the two agents of a row
\* be the same one): created and not settled, settled with any result, or
\* settled and then removed
MatchRows(l, r) ==
    LET finished == { SettledRow(NewGame(l, r, DefaultRating, DefaultRating), log,
                                 Val(result_of(log)),
                                 find_new_scores(DefaultRating, DefaultRating,
                                                 Val(result_of(log)))) :
                        log \in HarnessLogs }
    IN  { NewGame(l, r, DefaultRating, DefaultRating) }
        \cup finished
        \cup { [row EXCEPT !.status = DELETED] :
                 row \in { f \in finished : f.result = LEFT_WON } }

TableRows == UNION { MatchRows(l, r) : l \in 1..MaxAgents, r \in 1..MaxAgents }

InitTable ==
    /\ agents = [a \in 1..MaxAgents |-> Agent(Uploaded, TRUE)]
    /\ games \in UNION { [1..n -> TableRows] : n \in 0..MaxGames }
    /\ owner = [g \in DOMAIN games |-> EarlierRun]
    /\ pc = [w \in Workers |-> "handle"]
    /\ loc = [w \in Workers |-> NoLocals]
    /\ env = NoEnv
    /\ cache = NoCache

\* AgentAdmin's change page of agent a renders the readonly fields num_games,
\* win_ratio, statistics and last_games
AgentAdmin_change_view(a) ==
    /\ cache = NoCache
    /\ a \in DOMAIN agents
    /\ cache' = [agent |-> a, page |-> AgentViews(DOMAIN games, a)]
    /\ UNCHANGED <<agents, games, pc, loc, owner, env>>

NextTable == \E a \in 1..MaxAgents : AgentAdmin_change_view(a)

SpecTable == InitTable /\ [][NextTable]_vars

-----------------------------------------------------------------------------
(* Helpers of the properties *)

GameIds == DOMAIN games
AgentIds == DOMAIN agents

\* a game the scheduler has settled: line 99 stamps it, and nothing unstamps it
Settled(g) == games[g].finished

\* the games a failed run_game has left behind
Abandoned == { loc[w].game : w \in { v \in Workers : pc[v] = "failed" /\ loc[v].game # 0 } }

\* the rating delta game g records for agent a
DeltaOf(g, a) ==
    (IF games[g].left_agent = a /\ games[g].left_new_rating # NULL
     THEN Val(games[g].left_new_rating) - games[g].left_current_rating ELSE 0)
    + (IF games[g].right_agent = a /\ games[g].right_new_rating # NULL
       THEN Val(games[g].right_new_rating) - games[g].right_current_rating ELSE 0)

RECURSIVE SumDeltas(_, _)
SumDeltas(a, n) ==
    IF n = 0 THEN 0
    ELSE SumDeltas(a, n - 1) + (IF Settled(n) THEN DeltaOf(n, a) ELSE 0)

ArraysPresent(row) ==
    /\ row.initial_thresholds # NULL
    /\ row.left_actions # NULL
    /\ row.right_actions # NULL
    /\ row.left_rewards # NULL
    /\ row.right_rewards # NULL

ArraysAbsent(row) ==
    /\ row.initial_thresholds = NULL
    /\ row.left_actions = NULL
    /\ row.right_actions = NULL
    /\ row.left_rewards = NULL
    /\ row.right_rewards = NULL

Results == {LEFT_WON, RIGHT_WON, DRAW}

\* no scheduler stands between its game.save() and its last agent.save()
NoSettleInProgress == \A w \in Workers : pc[w] \notin {"save_left", "save_right"}

\* C1: rating updates are atomic read-modify-writes, so no interleaving of two
\* run_game executions loses a match's rating delta: whenever no settle is in
\* progress, every agent's rating is the default rating plus the deltas of all
\* the matches settled for it.
C1_NoLostUpdate ==
    NoSettleInProgress =>
        \A a \in AgentIds :
            agents[a].rating = DefaultRating + SumDeltas(a, Len(games))

\* the state of an abandoned record, and the step that abandons it
C2_AbandonedInv ==
    \A g \in Abandoned :
        /\ games[g].status # FINISHED
        /\ ~Settled(g)
        /\ games[g].result = UNKNOWN
        /\ ArraysAbsent(games[g])
        /\ games[g].left_new_rating = NULL
        /\ games[g].right_new_rating = NULL

C2_FailureStep ==
    \A w \in Workers :
        (pc[w] # "failed" /\ pc'[w] = "failed") =>
            /\ agents' = agents
            /\ loc[w].game # 0 => games'[loc[w].game] = games[loc[w].game]

\* C2: a match whose run fails is abandoned: its record is not FINISHED, its
\* result is UNKNOWN, its arrays and 'after' ratings are null, and the failing
\* step changes no agent's rating.
C2_Abandoned == [][C2_AbandonedInv' /\ C2_FailureStep]_vars

C2_Witness == Abandoned # {} /\ \E g \in GameIds : Settled(g)

\* the parts of the life cycle of a record
C3_Created(g) ==
    /\ games'[g].status = STARTED
    /\ ~games'[g].finished
    /\ games'[g].left_current_rating = agents[games'[g].left_agent].rating
         \/ \E w \in Workers : games'[g].left_current_rating = loc[w].left_rating
    /\ games'[g].right_current_rating = agents[games'[g].right_agent].rating
         \/ \E w \in Workers : games'[g].right_current_rating = loc[w].right_rating
    /\ games'[g].result = UNKNOWN
    /\ ArraysAbsent(games'[g])
    /\ games'[g].left_new_rating = NULL
    /\ games'[g].right_new_rating = NULL

C3_Complete(row) ==
    /\ ArraysPresent(row)
    /\ row.result \in Results
    /\ row.left_new_rating # NULL
    /\ row.right_new_rating # NULL

C3_Step ==
    /\ \A g \in DOMAIN games' \ GameIds : C3_Created(g)
    /\ \A g \in GameIds :
         /\ (games[g].status # FINISHED /\ games'[g].status = FINISHED) =>
                /\ ~Settled(g)
                /\ ArraysAbsent(games[g])
                /\ C3_Complete(games'[g])
         /\ Settled(g) =>
                /\ [games'[g] EXCEPT !.status = FINISHED]
                     = [games[g] EXCEPT !.status = FINISHED]
                /\ games'[g].status \in {games[g].status, DELETED}

C3_FinishedComplete ==
    \A g \in GameIds : games[g].status = FINISHED => C3_Complete(games[g])

C4_UnknownIffNotFinished ==
    \A g \in GameIds : (games[g].result = UNKNOWN) <=> (games[g].status # FINISHED)

\* C4 (amended): result is UNKNOWN if and only if the record was never settled;
\* a STARTED record has result UNKNOWN, a FINISHED record has one of LEFT_WON,
\* RIGHT_WON and DRAW, and a DELETED record keeps the result it had.
C4_UnknownIffNeverSettled ==
    \A g \in GameIds :
        /\ (games[g].result = UNKNOWN) <=> ~Settled(g)
        /\ games[g].status = STARTED => games[g].result = UNKNOWN
        /\ games[g].status = FINISHED => games[g].result \in Results
        /\ games[g].result \in Results \cup {UNKNOWN}

C4_Witness ==
    /\ \E g \in GameIds : games[g].status = DELETED /\ games[g].result \in Results
    /\ \E g \in GameIds : games[g].status = STARTED /\ games[g].result = UNKNOWN

\* C5: every agent of a match record is enabled and has an uploaded executable.
C5_OnlyEligibleSelected ==
    \A g \in GameIds :
        \A a \in {games[g].left_agent, games[g].right_agent} :
            agents[a].enabled /\ agents[a].file # NoFile

\* the agents the scheduler may select: enabled, with an executable
EligiblePool == { a \in AgentIds : agents[a].enabled /\ agents[a].file # NoFile }

\* C6: no match pairs an agent with itself, and a scheduler that finds fewer
\* than two eligible agents (enabled, with an executable) stops without
\* selecting a pair or creating a record.
C6_SelectionContract ==
    /\ \A g \in GameIds : games[g].left_agent # games[g].right_agent
    /\ \A w \in Workers :
         (pc[w] # "handle" /\ Cardinality(EligiblePool) < 2) =>
             /\ pc[w] = "no_agents"
             /\ loc[w].left_id = 0 /\ loc[w].right_id = 0
             /\ \A g \in GameIds : owner[g] # w

\* the unsettled matches of a scheduler that it has not abandoned
InFlight(w) ==
    { g \in GameIds : owner[g] = w /\ ~Settled(g) /\ g \notin Abandoned }

C7_OneInFlight ==
    \A w \in Workers :
        /\ Cardinality(InFlight(w)) <= 1
        /\ pc[w] \in {"loop", "read_right", "create", "returned"} => InFlight(w) = {}

C7_BackToSelection ==
    \A w \in Workers :
        (pc[w] \notin {"loop", "handle"} /\ pc'[w] = "loop") =>
            LET g == loc[w].game
            IN  /\ g \in GameIds /\ owner[g] = w /\ Settled(g)
                /\ agents'[games[g].right_agent].rating = Val(games[g].right_new_rating)

\* C7: the matches of one scheduling loop never overlap: a scheduler has at
\* most one unsettled match that it has not abandoned, none when it selects
\* the next pair, and it returns to the selection only by the write of the
\* right agent's new rating, after the record was finalized.
C7_NoOverlap == [][C7_OneInFlight' /\ C7_BackToSelection]_vars

C7_Witness ==
    \E w \in Workers :
        /\ pc[w] = "run"
        /\ Cardinality({ g \in GameIds : owner[g] = w }) = 2

\* the views of every agent see the FINISHED matches alone
FinishedIds == { g \in GameIds : games[g].status = FINISHED }

C8_ViewsOverFinished ==
    \A a \in AgentIds : AgentViews(GameIds, a) = AgentViews(FinishedIds, a)

\* C8 (as stated): a match that is not FINISHED contributes to no agent's rating
\* and to no aggregate view: an agent without FINISHED matches has the default
\* rating, and its views are those computed over the FINISHED matches alone.
C8_NotFinishedNoEffect ==
    /\ C8_ViewsOverFinished
    /\ \A a \in AgentIds :
         games_qs(GameIds, a) = {} => agents[a].rating = DefaultRating

\* C8 (amended): a match that was never settled contributes to no agent's
\* rating, and a match that is not FINISHED contributes to no aggregate view; a
\* match settled and then soft-removed keeps its effect on the ratings.
C8_UnsettledNoEffect ==
    /\ C8_ViewsOverFinished
    /\ \A a \in AgentIds :
         (\A g \in GameIds :
              (games[g].left_agent = a \/ games[g].right_agent = a) => ~Settled(g))
           => agents[a].rating = DefaultRating

C8_Witness ==
    /\ \E g \in GameIds : games[g].status = STARTED
    /\ \E g \in GameIds :
         /\ games[g].status = DELETED /\ Settled(g)
         /\ agents[games[g].left_agent].rating # DefaultRating
         /\ games_qs(GameIds, games[g].left_agent) = {}

\* the number of pulls of arm a (0-based) by either side in the steps 1..j
RECURSIVE Pulls(_, _)
Pulls(a, j) ==
    IF j = 0 THEN 0
    ELSE Pulls(a, j - 1) + (IF env.steps[j].la = a THEN 1 ELSE 0)
                         + (IF env.steps[j].ra = a THEN 1 ELSE 0)

\* x multiplied by 0.97, n times
RECURSIVE DecayN(_, _)
DecayN(x, n) == IF n = 0 THEN x ELSE DecayN(Decay(x), n - 1)

Reconstructed == cache.steps # NULL

\* C9: the expected reward of each side at step i is the threshold of the arm
\* it pulled, divided by 100, as the decays of the earlier steps alone have
\* left it; two sides on the same arm report the same value.
C9_ExpectedBeforeDecay ==
    Reconstructed =>
        \A i \in 1..Len(Val(cache.steps)) :
            LET d == Val(cache.steps)[i]
                before(a) == DecayN(env.thresholds[a + 1] * ThScale, Pulls(a, i - 1))
            IN  /\ d.left_expected_reward
                     = RoundDiv(before(d.left_action), SAMPLE_RESOLUTION)
                /\ d.right_expected_reward
                     = RoundDiv(before(d.right_action), SAMPLE_RESOLUTION)
                /\ d.left_action = d.right_action
                     => d.left_expected_reward = d.right_expected_reward

C9_Witness ==
    /\ Reconstructed
    /\ \E i \in 2..Len(Val(cache.steps)) :
         LET d == Val(cache.steps)[i]
         IN  /\ d.left_action = d.right_action
             /\ Pulls(d.left_action, i - 1) > 0
             /\ d.left_expected_reward
                  < RoundDiv(env.thresholds[d.left_action + 1] * ThScale,
                             SAMPLE_RESOLUTION)

\* C10: the threshold snapshot of step i holds, for every arm, the initial
\* threshold multiplied by 0.97 once per pull of the arm by either side in the
\* steps up to and including i: twice in a step where both sides pull it, never
\* for an arm nobody pulled.
C10_SnapshotAfterDecay ==
    Reconstructed =>
        /\ Len(Val(cache.steps)) = Len(env.steps)
        /\ \A i \in 1..Len(Val(cache.steps)) :
             LET d == Val(cache.steps)[i]
             IN  /\ DOMAIN d.thresholds = 1..NumBandits
                 /\ \A a \in 0..NumBandits - 1 :
                      d.thresholds[a + 1]
                        = DecayN(env.thresholds[a + 1] * ThScale, Pulls(a, i))

C10_Witness ==
    /\ Reconstructed
    /\ \E i \in 1..Len(Val(cache.steps)) :
         LET d == Val(cache.steps)[i]
         IN  /\ d.left_action = d.right_action
             /\ \E a \in 0..NumBandits - 1 :
                  /\ Pulls(a, i) = 0
                  /\ d.thresholds[a + 1] = env.thresholds[a + 1] * ThScale
             /\ d.thresholds[d.left_action + 1]
                  = Decay(Decay(env.thresholds[d.left_action + 1] * ThScale))

\* the sum of the reward deltas of the steps 1..j of trajectory s
RECURSIVE SumLeftRewards(_, _)
SumLeftRewards(s, j) == IF j = 0 THEN 0 ELSE SumLeftRewards(s, j - 1) + s[j].left_reward

RECURSIVE SumRightRewards(_, _)
SumRightRewards(s, j) == IF j = 0 THEN 0 ELSE SumRightRewards(s, j - 1) + s[j].right_reward

\* C11: over the uint16 reward arrays run_game stores, the running total of
\* each side at step i is the stored cumulative reward at i, the reward of
\* step i is cumulative[i] - cumulative[i-1] (cumulative[1] at the first step),
\* and the rewards of all steps add up to the last cumulative value.
C11_RewardTotals ==
    Reconstructed =>
        LET s == Val(cache.steps)
            L == left_rewards_of(env)
            R == right_rewards_of(env)
        IN  /\ Len(s) = Len(L)
            /\ \A i \in 1..Len(s) :
                 /\ s[i].total_left_reward = L[i]
                 /\ s[i].total_right_reward = R[i]
                 /\ s[i].left_reward = L[i] - (IF i = 1 THEN 0 ELSE L[i - 1])
                 /\ s[i].right_reward = R[i] - (IF i = 1 THEN 0 ELSE R[i - 1])
            /\ Len(s) > 0 =>
                 /\ SumLeftRewards(s, Len(s)) = L[Len(s)]
                 /\ SumRightRewards(s, Len(s)) = R[Len(s)]

C11_Witness ==
    /\ Reconstructed
    /\ \E i \in 2..Len(Val(cache.steps)) :
         LET s == Val(cache.steps)
         IN  /\ s[i - 1].total_left_reward > 0
             /\ s[i].left_reward = 1
             /\ s[i].total_left_reward = s[i - 1].total_left_reward + 1
             /\ s[i].right_reward = 0

\* the four step arrays of a stored row, for a row that has them
StepArrayLengths(row) ==
    { Len(Val(row.left_actions)), Len(Val(row.right_actions)),
      Len(Val(row.left_rewards)), Len(Val(row.right_rewards)) }

Viewed == cache # NoCache

\* C12: reading the trajectory of a record whose four step arrays differ in
\* length fails: no trajectory is returned for it, in particular not the one
\* cut to the shortest array.
C12_FailsOnLengthMismatch ==
    \A g \in DOMAIN games :
        (Viewed /\ ArraysPresent(games[g]) /\ Cardinality(StepArrayLengths(games[g])) > 1)
            => cache.steps = NULL

\* the steps of the harness log whose stored action of either side is no arm
BadSteps ==
    { i \in 1..Len(env.steps) :
        \/ left_actions_of(env)[i] >= NumBandits
        \/ right_actions_of(env)[i] >= NumBandits }

\* C13: reading the trajectory of a record with an action index outside
\* 0..NumBandits-1 (NumBandits itself included) at any step fails as a whole
\* with IndexError: the index is not clamped or wrapped to an arm, the step is
\* not skipped, and no step sequence, not even the steps before the bad one, is
\* returned or cached. A record without such an index is reconstructed.
C13_FailsOnBadAction ==
    Viewed =>
        /\ BadSteps # {} => (cache.steps = NULL /\ cache.error = "IndexError")
        /\ BadSteps = {} => Reconstructed

C13_Witness ==
    /\ Viewed
    /\ Len(env.steps) = 2
    /\ BadSteps = {2}
    /\ env.steps[2].la = NumBandits
    /\ cache.steps = NULL
    /\ cache.error = "IndexError"

\* the result of a match with the sides swapped
SwapResult(result) ==
    IF result = LEFT_WON THEN RIGHT_WON
    ELSE IF result = RIGHT_WON THEN LEFT_WON
    ELSE result

SwapPair(p) == <<p[2], p[1]>>

\* C14: the rating update is symmetric under swapping the sides: for the
\* ratings ra, rb of any two agents, update(ra, rb, LEFT_WON) is the swapped
\* pair of update(rb, ra, RIGHT_WON) and update(ra, rb, DRAW) the swapped pair
\* of update(rb, ra, DRAW); so the ratings a settled match records are the
\* swapped pair of the update of the mirrored match.
C14_SwapSymmetric ==
    /\ \A a, b \in AgentIds : \A result \in Results :
         find_new_scores(agents[a].rating, agents[b].rating, result)
           = SwapPair(find_new_scores(agents[b].rating, agents[a].rating,
                                      SwapResult(result)))
    /\ \A g \in GameIds :
         Settled(g) =>
           <<Val(games[g].left_new_rating), Val(games[g].right_new_rating)>>
             = SwapPair(find_new_scores(games[g].right_current_rating,
                                        games[g].left_current_rating,
                                        SwapResult(games[g].result)))

C14_Witness ==
    \E g, h \in GameIds :
        /\ Settled(g) /\ Settled(h)
        /\ owner[g] = "w1" /\ owner[h] = "w1"
        /\ games[g].left_current_rating # games[g].right_current_rating
        /\ games[g].result = LEFT_WON
        /\ games[h].result = DRAW
        /\ Val(games[g].left_new_rating) - games[g].left_current_rating
             # Val(games[g].right_new_rating) - games[g].right_current_rating

Abs(x) == IF x >= 0 THEN x ELSE -x

\* by how much the magnitudes of the two rating deltas of one update differ
MagnitudeGap(ra, rb, result) ==
    LET new == find_new_scores(ra, rb, result)
    IN  Abs(Abs(new[1] - ra) - Abs(new[2] - rb))

\* the same for the ratings a settled game records
RecordedGap(g) ==
    Abs(Abs(Val(games[g].left_new_rating) - games[g].left_current_rating)
        - Abs(Val(games[g].right_new_rating) - games[g].right_current_rating))

\* C15: for every pair of ratings and every outcome the magnitude of the left
\* side's rating delta equals the magnitude of the right side's, the expected
\* scores adding up to 1: each settle moves the two participants by equal
\* amounts.
C15_EqualMagnitude ==
    /\ \A a, b \in AgentIds : \A result \in Results :
         /\ MagnitudeGap(agents[a].rating, agents[b].rating, result) = 0
         /\ expected_scores(agents[a].rating, agents[b].rating)[1]
              + expected_scores(agents[a].rating, agents[b].rating)[2] = EScale
    /\ \A g \in GameIds : Settled(g) => RecordedGap(g) = 0

\* C15, as the code has it: the two expected scores are rounded one by one, so
\* their sum is 1 up to one rounding unit, and the magnitudes of the two rating
\* deltas of a settle agree up to one rounding unit of the rating; the deltas
\* never point the same way.
C15_EqualWithinRounding ==
    /\ \A a, b \in AgentIds : \A result \in Results :
         /\ MagnitudeGap(agents[a].rating, agents[b].rating, result) <= 1
         /\ Abs(expected_scores(agents[a].rating, agents[b].rating)[1]
                + expected_scores(agents[a].rating, agents[b].rating)[2]
                - EScale) <= 1
    /\ \A g \in GameIds :
         Settled(g) =>
           /\ RecordedGap(g) <= 1
           /\ (Val(games[g].left_new_rating) - games[g].left_current_rating)
                * (Val(games[g].right_new_rating) - games[g].right_current_rating) <= 0

C15_Witness ==
    \E g \in GameIds :
        /\ Settled(g)
        /\ owner[g] = "w1"
        /\ games[g].left_current_rating # games[g].right_current_rating
        /\ RecordedGap(g) = 1
        /\ agents[games[g].left_agent].rating = Val(games[g].left_new_rating)
        /\ agents[games[g].right_agent].rating = Val(games[g].right_new_rating)

\* the FINISHED matches of agent a against o that have result `won` with a on
\* the left, or result `lost` with a on the right
Tally(a, o, won, lost) ==
    Cardinality({ g \in GameIds :
                    /\ games[g].status = FINISHED
                    /\ \/ /\ games[g].left_agent = a /\ games[g].right_agent = o
                          /\ games[g].result = won
                       \/ /\ games[g].left_agent = o /\ games[g].right_agent = a
                          /\ games[g].result = lost })

\* the sum of the three counts of every competitor of the table stats
RECURSIVE SumCounts(_, _)
SumCounts(stats, S) ==
    IF S = {} THEN 0
    ELSE LET c == CHOOSE x \in S : TRUE
         IN  stats[c].win + stats[c].draw + stats[c].lose + SumCounts(stats, S \ {c})

\* C16: the head-to-head table of an agent has, for each other agent it has a
\* FINISHED match with, the number of those matches it won (LEFT_WON on the
\* left, RIGHT_WON on the right), drew and lost, each match under one key;
\* matches of an agent against itself are in no count and the agent is no
\* competitor of itself; all counts add up to the number of the agent's
\* FINISHED matches against other agents.
C16_HeadToHead ==
    Viewed =>
        LET a == cache.agent
            stats == cache.page.statistics
        IN  /\ DOMAIN stats \subseteq AgentIds \ {a}
            /\ \A o \in AgentIds \ {a} :
                 LET w == Tally(a, o, LEFT_WON, RIGHT_WON)
                     d == Tally(a, o, DRAW, DRAW)
                     l == Tally(a, o, RIGHT_WON, LEFT_WON)
                 IN  IF w + d + l = 0 THEN o \notin DOMAIN stats
                     ELSE /\ o \in DOMAIN stats
                          /\ stats[o] = [win |-> w, lose |-> l, draw |-> d]
            /\ SumCounts(stats, DOMAIN stats)
                 = Cardinality({ g \in GameIds :
                                   /\ games[g].status = FINISHED
                                   /\ games[g].left_agent # games[g].right_agent
                                   /\ a \in {games[g].left_agent, games[g].right_agent} })

C16_Witness ==
    /\ Viewed
    /\ \E g, h \in GameIds :
         /\ games[g].status = FINISHED
         /\ games[g].left_agent = cache.agent /\ games[g].right_agent = cache.agent
         /\ games[h].status = FINISHED
         /\ games[h].right_agent = cache.agent /\ games[h].left_agent # cache.agent
         /\ games[h].result = RIGHT_WON
         /\ cache.page.statistics
              = [o \in {games[h].left_agent} |-> [win |-> 1, lose |-> 0, draw |-> 0]]

Involves(g, a) == games[g].left_agent = a \/ games[g].right_agent = a

\* the rating of agent a that game g records as read before the match, and
\* the one it records as the outcome of the match
BeforeOf(g, a) ==
    IF games[g].left_agent = a THEN games[g].left_current_rating
    ELSE games[g].right_current_rating

AfterOf(g, a) ==
    IF games[g].left_agent = a THEN Val(games[g].left_new_rating)
    ELSE Val(games[g].right_new_rating)

SettledIds == { g \in GameIds : Settled(g) }

\* every settled row records the update of the two ratings it records as read
RecordsUpdate ==
    \A g \in SettledIds :
        <<Val(games[g].left_new_rating), Val(games[g].right_new_rating)>>
          = find_new_scores(games[g].left_current_rating,
                            games[g].right_current_rating, games[g].result)

\* the step that ends a settle leaves both participants at the ratings the
\* match records
SettleStep ==
    (pc["w1"] = "save_right" /\ pc'["w1"] = "loop") =>
        LET g == loc["w1"].game
        IN  /\ Settled(g)
            /\ agents'[games[g].left_agent].rating = Val(games'[g].left_new_rating)
            /\ agents'[games[g].right_agent].rating = Val(games'[g].right_new_rating)

\* among the games S, each game of an agent starts from the rating the
\* agent's game before it, in S, ended with
ChainOver(S) ==
    \A a \in AgentIds : \A g, h \in S :
        ( /\ g < h /\ Involves(g, a) /\ Involves(h, a)
          /\ ~ \E m \in S : g < m /\ m < h /\ Involves(m, a) )
            => BeforeOf(h, a) = AfterOf(g, a)

\* C17: with one scheduler process the rating history is a chain: after every
\* settle each participant's stored rating is the 'after' rating the match
\* records, which is the update of the two 'before' ratings read at schedule
\* time, and of any two consecutive FINISHED matches of an agent the later
\* one starts from the rating the earlier one ended with.
C17_FinishedChain ==
    [][SettleStep /\ RecordsUpdate' /\ ChainOver(FinishedIds)']_vars

\* C17, as the code has it: the chain runs over the settled matches of an
\* agent, those removed after their settle included, since a removed match
\* keeps its effect on the rating.
C17_SettledChain ==
    [][SettleStep /\ RecordsUpdate' /\ ChainOver(SettledIds)']_vars

C17_Witness ==
    /\ NoSettleInProgress
    /\ \E a \in AgentIds : \E g, h, k \in SettledIds :
         /\ g < h /\ h < k
         /\ Involves(g, a) /\ Involves(h, a) /\ Involves(k, a)
         /\ games[g].status = FINISHED
         /\ games[h].status = DELETED
         /\ games[k].status = FINISHED
         /\ BeforeOf(h, a) = AfterOf(g, a)
         /\ BeforeOf(k, a) = AfterOf(h, a)
         /\ BeforeOf(k, a) # AfterOf(g, a)
         /\ agents[a].rating = AfterOf(k, a)

====
